---- MODULE Spec2Model ----
(***************************************************************************)
(* Word-frequency analysis of odnal/rust-hash-table (src/src/main.rs):     *)
(* the linear-scan table FreqKVs (naive_analysis) and the open-addressing  *)
(* HashTable with linear probing and capacity doubling (better_analysis).  *)
(*                                                                         *)
(* A token is a byte string, modelled as a tuple of byte values.  A usize  *)
(* (64 bits) is modelled as a little-endian tuple of 16-bit limbs so that  *)
(* the wrapping arithmetic of the hash is computed at its real width.      *)
(* Slot and vector indices are 0-based as in the source; a TLA+ sequence   *)
(* is 1-based, so cells[index] of the source is cells[index + 1] here.     *)
(*                                                                         *)
(* main runs naive_analysis and then better_analysis over the same words.  *)
(* The two share no state, so the model feeds each token to both tables in *)
(* one step (Token) and keeps the two reports as separate steps            *)
(* (NaiveReport, BetterReport); a report of better_analysis may come       *)
(* before that of naive_analysis, as when better_analysis is run alone.    *)
(* An index out of bounds is a panic: it ends the process.                 *)
(***************************************************************************)
EXTENDS Integers, Sequences, FiniteSets

(***************************************************************************)
(* Bounds of the model.                                                    *)
(***************************************************************************)
\* most tokens in the input (words.len())
MaxTokens == 22
\* most tokens of the input that repeat an earlier token
MaxRepeats == 1

(***************************************************************************)
(* Program constants.                                                      *)
(***************************************************************************)
INIT_CAP == 10
HASH_SEED == 5381
TOP_N == 10
USIZE_BITS == 64

\* a usize is << x1, x2, x3, x4 >>, four limbs of USIZE_BITS / 4 bits, and
\* stands for x1 + x2 * 2^16 + x3 * 2^32 + x4 * 2^48
LimbBase == 2 ^ (USIZE_BITS \div 4)

(***************************************************************************)
(* usize arithmetic on limbs.                                              *)
(***************************************************************************)
\* e, evaluated once v has been: a loop whose accumulator is evaluated at
\* every turn is evaluated at constant depth
After(v, e) == IF v = v THEN e ELSE e

\* a number below 2^16 (a byte, the seed) as a usize
ToWord(n) == << n, 0, 0, 0 >>

\* x << bits on a usize, bits < 16: the bits shifted out at the top are dropped
Shl(x, bits) ==
  LET t1 == x[1] * (2 ^ bits)
      t2 == x[2] * (2 ^ bits) + (t1 \div LimbBase)
      t3 == x[3] * (2 ^ bits) + (t2 \div LimbBase)
      t4 == x[4] * (2 ^ bits) + (t3 \div LimbBase)
  IN  << t1 % LimbBase, t2 % LimbBase, t3 % LimbBase, t4 % LimbBase >>

\* wrapping_add with a fault: usize::saturating_add, a sum past the top of
\* the word is the largest usize
saturating_add(x, y) ==
  LET t1 == x[1] + y[1]
      t2 == x[2] + y[2] + (t1 \div LimbBase)
      t3 == x[3] + y[3] + (t2 \div LimbBase)
      t4 == x[4] + y[4] + (t3 \div LimbBase)
  IN  IF t4 >= LimbBase
      THEN << LimbBase - 1, LimbBase - 1, LimbBase - 1, LimbBase - 1 >>
      ELSE << t1 % LimbBase, t2 % LimbBase, t3 % LimbBase, t4 % LimbBase >>

\* usize::wrapping_add: the carry out of the top limb is dropped
wrapping_add(x, y) ==
  LET t1 == x[1] + y[1]
      t2 == x[2] + y[2] + (t1 \div LimbBase)
      t3 == x[3] + y[3] + (t2 \div LimbBase)
      t4 == x[4] + y[4] + (t3 \div LimbBase)
  IN  << t1 % LimbBase, t2 % LimbBase, t3 % LimbBase, t4 % LimbBase >>

\* x % n for a usize x and 0 < n < 2^15
Rem(x, n) ==
  LET r4 == x[4] % n
      r3 == (r4 * LimbBase + x[3]) % n
      r2 == (r3 * LimbBase + x[2]) % n
  IN  (r2 * LimbBase + x[1]) % n

(***************************************************************************)
(* impl Hashable for String: djb2.                                         *)
(***************************************************************************)
\* result = ((result << 5).wrapping_add(result)).wrapping_add(c.into())
HashStep(result, c) ==
  wrapping_add(wrapping_add(Shl(result, 5), result), ToWord(c))

RECURSIVE HashBytes(_, _, _)
HashBytes(result, s, i) ==
  IF i > Len(s) THEN result
  ELSE LET next == HashStep(result, s[i])
       IN  After(next, HashBytes(next, s, i + 1))

hash(s) == HashBytes(ToWord(HASH_SEED), s, 1)

(***************************************************************************)
(* The tokens of the model.                                                *)
(***************************************************************************)
\* hash % 10 and hash % 20 of each key are given in the comment
KeyPool ==
  << << 97 >>,                     \* "a"    0  10
     << 98 >>,                     \* "b"    1  11
     << 107 >>,                    \* "k"    0   0
     << 117 >>,                    \* "u"    0  10
     << 106 >>,                    \* "j"    9  19
     << 116 >>,                    \* "t"    9   9
     << 97, 98 >>,                 \* "ab"   same hash as "bA"
     << 98, 65 >>,                 \* "bA"
     << 116, 104, 101 >>,          \* "the"
     << 97, 97, 97, 97, 97, 97, 97, 97, 97, 97, 97, 97, 97 >>,  \* 13 x "a": the hash wraps
     << 99 >>, << 100 >>, << 101 >>, << 102 >>, << 103 >>, << 104 >>,
     << 105 >>, << 108 >>, << 109 >>, << 110 >>, << 111 >>, << 112 >>,
     << 122, 122, 122, 122, 122, 122, 122, 122, 122, 122, 122, 122 >> >>

NumKeys == Len(KeyPool)
KeySet == { KeyPool[i] : i \in 1..NumKeys }

\* key.hash() of every key of the pool
KeyHash == [k \in KeySet |-> hash(k)]

\* the orders in which the tokens of an input first occur
Orders ==
  << [i \in 1..NumKeys |-> KeyPool[i]],
     [i \in 1..NumKeys |-> KeyPool[NumKeys + 1 - i]],
     [i \in 1..NumKeys |-> KeyPool[((i + 5) % NumKeys) + 1]],
     [i \in 1..NumKeys |-> KeyPool[((i * 7) % NumKeys) + 1]] >>

(***************************************************************************)
(* State.                                                                  *)
(***************************************************************************)
VARIABLES
  order,      \* input: which of Orders the first occurrences follow
  occ,        \* input: how often each key occurs among the tokens fed so far
  ntok,       \* input: number of tokens fed so far
  lastKey,    \* the token of the latest insert (<< >> before the first)
  lastIndex,  \* value of `index` when the latest insert returned
  ext,        \* << t >> when the latest insert called extend, which built t
  growths,    \* number of calls of extend so far
  freq,       \* FreqKVs of naive_analysis
  slots,      \* HashTable of better_analysis
  roomy,      \* a HashTable created with room for every key of the pool
  npc,        \* naive_analysis: "loop", "done" or "panicked"
  bpc,        \* better_analysis: "loop" or "done"
  nout,       \* naive_analysis: the token count and the lines it printed
  bout        \* better_analysis: the token count and the lines it printed

vars == << order, occ, ntok, lastKey, lastIndex, ext, growths, freq, slots,
           roomy, npc, bpc, nout, bout >>

(***************************************************************************)
(* FreqKVs.                                                                *)
(***************************************************************************)
FreqKVsNew == [freq_table |-> << >>, count |-> 0]

RECURSIVE FindFrom(_, _, _)
FindFrom(f, word, i) ==
  IF i >= f.count THEN -1
  ELSE IF f.freq_table[i + 1].key = word THEN i
  ELSE FindFrom(f, word, i + 1)

\* the index of the entry find_key returns, -1 for None
find_key(f, word) == FindFrom(f, word, 0)

append(f, new_item) == [f EXCEPT !.freq_table = Append(@, new_item)]

\* the body of the token loop of naive_analysis
NaiveToken(f, token) ==
  LET i == find_key(f, token)
  IN  IF i >= 0
      THEN [f EXCEPT !.freq_table[i + 1].value = @ + 1]
      ELSE [append(f, [key |-> token, value |-> 1]) EXCEPT !.count = @ + 1]

(***************************************************************************)
(* slice::sort_by_key(|entry| Reverse(entry.value)): a stable sort, so the *)
(* entries come by value, largest first, and the entries of one value come *)
(* in the order they had.                                                  *)
(***************************************************************************)
\* the entries of value v, then those of value v - 1, ... down to value 0
RECURSIVE ByValueFrom(_, _)
ByValueFrom(s, v) ==
  IF v < 0 THEN << >>
  ELSE SelectSeq(s, LAMBDA entry : entry.value = v) \o ByValueFrom(s, v - 1)

MaxValue(s) ==
  IF s = << >> THEN 0
  ELSE CHOOSE v \in { s[i].value : i \in 1..Len(s) } :
         \A i \in 1..Len(s) : s[i].value <= v

\* sort_by_key_reverse with a fault: sort_by_key(|entry| entry.value), the
\* smallest value first
RECURSIVE ByValueUpFrom(_, _, _)
ByValueUpFrom(s, v, max) ==
  IF v > max THEN << >>
  ELSE SelectSeq(s, LAMBDA entry : entry.value = v) \o ByValueUpFrom(s, v + 1, max)

sort_by_key(s) == ByValueUpFrom(s, 0, MaxValue(s))

sort_by_key_reverse(s) == ByValueFrom(s, MaxValue(s))

(***************************************************************************)
(* HashTable.                                                              *)
(***************************************************************************)
\* HashCell::default()
DefaultCell == [key |-> << >>, value |-> 0, taken |-> FALSE]

NewTable(cap) == [cells |-> [i \in 1..cap |-> DefaultCell], taken_count |-> 0]

HashTableNew == NewTable(INIT_CAP)

\* ProbeFree with a fault: extend without its probing loop
ProbeFreeStay(cells, index) == index

\* while new_self.cells[index].taken { index = (index + 1) % len }
RECURSIVE ProbeFree(_, _)
ProbeFree(cells, index) ==
  IF cells[index + 1].taken
  THEN ProbeFree(cells, (index + 1) % Len(cells))
  ELSE index

\* Rehash with a fault: the count is not carried over
RehashCountOne(new_self, cell) ==
  IF cell.taken
  THEN LET index == ProbeFree(new_self.cells,
                              Rem(KeyHash[cell.key], Len(new_self.cells)))
       IN  [cells |-> [new_self.cells EXCEPT
                         ![index + 1] = [key |-> cell.key,
                                         value |-> 1,
                                         taken |-> TRUE]],
            taken_count |-> new_self.taken_count + 1]
  ELSE new_self

\* Rehash with a fault: the index is taken modulo the old capacity
RehashOldLen(new_self, cell) ==
  IF cell.taken
  THEN LET index == ProbeFree(new_self.cells,
                              Rem(KeyHash[cell.key], Len(new_self.cells) \div 2))
       IN  [cells |-> [new_self.cells EXCEPT
                         ![index + 1] = [key |-> cell.key,
                                         value |-> cell.value,
                                         taken |-> TRUE]],
            taken_count |-> new_self.taken_count + 1]
  ELSE new_self

\* the body of the rehash loop of extend, for one cell of the old table
Rehash(new_self, cell) ==
  IF cell.taken
  THEN LET index == ProbeFree(new_self.cells,
                              Rem(KeyHash[cell.key], Len(new_self.cells)))
       IN  [cells |-> [new_self.cells EXCEPT
                         ![index + 1] = [key |-> cell.key,
                                         value |-> cell.value,
                                         taken |-> TRUE]],
            taken_count |-> new_self.taken_count + 1]
  ELSE new_self

RECURSIVE RehashFrom(_, _, _)
RehashFrom(new_self, cells, i) ==
  IF i > Len(cells) THEN new_self
  ELSE LET next == Rehash(new_self, cells[i])
       IN  After(next, RehashFrom(next, cells, i + 1))

\* extend with a fault: the new table has one slot more, not twice as many
ExtendByOne(t) == RehashFrom(NewTable(Len(t.cells) + 1), t.cells, 1)

\* extend with a fault: the new table has three times as many slots
ExtendTriple(t) == RehashFrom(NewTable(Len(t.cells) * 3), t.cells, 1)

\* extend with a fault: taken_count of the new table starts at the old
\* taken_count, not at 0
ExtendKeepCount(t) ==
  RehashFrom([NewTable(Len(t.cells) * 2) EXCEPT !.taken_count = t.taken_count],
             t.cells, 1)

extend(t) == RehashFrom(NewTable(Len(t.cells) * 2), t.cells, 1)

\* Probe with a fault: insert without its probing loop
ProbeStay(cells, index, key) == index

\* Probe with a fault: keys are compared by their hash
RECURSIVE ProbeByHash(_, _, _)
ProbeByHash(cells, index, key) ==
  IF cells[index + 1].taken /\ KeyHash[cells[index + 1].key] # KeyHash[key]
  THEN ProbeByHash(cells, (index + 1) % Len(cells), key)
  ELSE index

\* Probe with a fault: the key is never compared, the probe ends at a free
\* slot
ProbeNoMatch(cells, index, key) == ProbeFree(cells, index)

\* the linear probing loop of insert: the value of index when it ends
RECURSIVE Probe(_, _, _)
Probe(cells, index, key) ==
  IF cells[index + 1].taken /\ cells[index + 1].key # key
  THEN Probe(cells, (index + 1) % Len(cells), key)
  ELSE index

\* the number of slots the linear probing loop of insert visits, the slot
\* where it ends included
RECURSIVE ProbeVisits(_, _, _)
ProbeVisits(cells, index, key) ==
  IF cells[index + 1].taken /\ cells[index + 1].key # key
  THEN 1 + ProbeVisits(cells, (index + 1) % Len(cells), key)
  ELSE 1

\* NeedsGrowth with a fault: the table grows when one slot is left free
NeedsGrowthEarly(t) == t.taken_count + 1 >= Len(t.cells)

\* NeedsGrowth with a fault: the table grows when it is half full
NeedsGrowthHalfFull(t) == t.taken_count * 2 >= Len(t.cells)

\* if self.taken_count >= self.cells.len()
NeedsGrowth(t) == t.taken_count >= Len(t.cells)

\* Place with a fault: a key found again has its count set, not incremented
PlaceOverwrite(t, key) ==
  LET index == Probe(t.cells, Rem(KeyHash[key], Len(t.cells)), key)
  IN  [table |-> [cells |-> [t.cells EXCEPT
                               ![index + 1] = [key |-> key,
                                               value |-> 1,
                                               taken |-> TRUE]],
                  taken_count |-> IF t.cells[index + 1].taken
                                  THEN t.taken_count
                                  ELSE t.taken_count + 1],
       index |-> index]

\* Place with a fault: the count of a new key is left at its default, 0
PlaceNoValue(t, key) ==
  LET index == Probe(t.cells, Rem(KeyHash[key], Len(t.cells)), key)
  IN  IF t.cells[index + 1].taken
      THEN [table |-> [t EXCEPT !.cells[index + 1].value = @ + 1],
            index |-> index]
      ELSE [table |-> [cells |-> [t.cells EXCEPT
                                    ![index + 1] = [key |-> key,
                                                    value |-> 0,
                                                    taken |-> TRUE]],
                       taken_count |-> t.taken_count + 1],
            index |-> index]

\* Place with a fault: taken_count is incremented also when the key is found
PlaceCountAlways(t, key) ==
  LET index == Probe(t.cells, Rem(KeyHash[key], Len(t.cells)), key)
  IN  IF t.cells[index + 1].taken
      THEN [table |-> [cells |-> [t.cells EXCEPT ![index + 1].value = @ + 1],
                       taken_count |-> t.taken_count + 1],
            index |-> index]
      ELSE [table |-> [cells |-> [t.cells EXCEPT
                                    ![index + 1] = [key |-> key,
                                                    value |-> 1,
                                                    taken |-> TRUE]],
                       taken_count |-> t.taken_count + 1],
            index |-> index]

\* insert after its growth check: probe, then increment or fill the slot
Place(t, key) ==
  LET index == Probe(t.cells, Rem(KeyHash[key], Len(t.cells)), key)
  IN  IF t.cells[index + 1].taken
      THEN [table |-> [t EXCEPT !.cells[index + 1].value = @ + 1],
            index |-> index]
      ELSE [table |-> [cells |-> [t.cells EXCEPT
                                    ![index + 1] = [key |-> key,
                                                    value |-> 1,
                                                    taken |-> TRUE]],
                       taken_count |-> t.taken_count + 1],
            index |-> index]

\* HashTable::insert: the table it leaves, the final index, and the table
\* extend built when it was called
insert(t, key) ==
  LET grown == NeedsGrowth(t)
      t1 == IF grown THEN extend(t) ELSE t
      placed == Place(t1, key)
  IN  [table |-> placed.table,
       index |-> placed.index,
       ext |-> IF grown THEN << t1 >> ELSE << >>]

\* for token in words { slots.insert(&String::from(*token)) }
RECURSIVE InsertAll(_, _, _)
InsertAll(t, words, i) ==
  IF i > Len(words) THEN t
  ELSE LET next == insert(t, words[i]).table
       IN  After(next, InsertAll(next, words, i + 1))

(***************************************************************************)
(* The input.  The tokens are fed one at a time, each to both tables: the  *)
(* two analyses run over the same `words` and share no state.  A token is  *)
(* either the next key of the order that has not occurred yet, or any key  *)
(* that has.                                                               *)
(***************************************************************************)
Seen == { k \in KeySet : occ[k] > 0 }
NumSeen == Cardinality(Seen)

FreshTokens ==
  IF NumSeen < NumKeys THEN { Orders[order][NumSeen + 1] } ELSE {}

RepeatTokens == IF ntok - NumSeen < MaxRepeats THEN Seen ELSE {}

NextTokens == FreshTokens \cup RepeatTokens

(***************************************************************************)
(* Operations.                                                             *)
(***************************************************************************)
Init ==
  /\ order \in 1..Len(Orders)
  /\ occ = [k \in KeySet |-> 0]
  /\ ntok = 0
  /\ lastKey = << >>
  /\ lastIndex = 0
  /\ ext = << >>
  /\ growths = 0
  /\ freq = FreqKVsNew
  /\ slots = HashTableNew
  /\ roomy = NewTable(NumKeys + 1)
  /\ npc = "loop"
  /\ bpc = "loop"
  /\ nout = [tokens |-> 0, lines |-> << >>]
  /\ bout = [tokens |-> 0, lines |-> << >>]

\* one token of `words`: one turn of the loop of naive_analysis and one of
\* the loop of better_analysis
Token(token) ==
  /\ npc = "loop" /\ bpc = "loop"
  /\ ntok < MaxTokens
  /\ LET r == insert(slots, token)
     IN  /\ slots' = r.table
         /\ lastIndex' = r.index
         /\ ext' = r.ext
         /\ growths' = growths + Len(r.ext)
  /\ roomy' = insert(roomy, token).table
  /\ freq' = NaiveToken(freq, token)
  /\ occ' = [occ EXCEPT ![token] = @ + 1]
  /\ ntok' = ntok + 1
  /\ lastKey' = token
  /\ UNCHANGED << order, npc, bpc, nout, bout >>

\* for i in 0..10 { println!(.., table[i].key, table[i].value) }: the lines
\* printed, and whether an index was out of bounds
Top(table) ==
  [lines |-> [i \in 1..(IF Len(table) < TOP_N THEN Len(table) ELSE TOP_N)
                |-> [key |-> table[i].key, value |-> table[i].value]],
   panicked |-> Len(table) < TOP_N]

\* naive_analysis once its loop is over
NaiveReport ==
  /\ npc = "loop"
  /\ LET sorted == sort_by_key_reverse(freq.freq_table)
         top == Top(sorted)
     IN  /\ freq' = [freq EXCEPT !.freq_table = sorted]
         /\ nout' = [tokens |-> Len(freq.freq_table), lines |-> top.lines]
         /\ npc' = IF top.panicked THEN "panicked" ELSE "done"
  /\ UNCHANGED << order, occ, ntok, lastKey, lastIndex, ext, growths, slots,
                  roomy, bpc, bout >>

\* better_analysis once its loop is over; a panic of naive_analysis has
\* ended the process
BetterReport ==
  /\ bpc = "loop"
  /\ npc # "panicked"
  /\ LET sorted == sort_by_key_reverse(slots.cells)
         top == Top(sorted)
     IN  /\ slots' = [slots EXCEPT !.cells = sorted]
         /\ bout' = [tokens |-> slots.taken_count, lines |-> top.lines]
         /\ bpc' = IF top.panicked THEN "panicked" ELSE "done"
  /\ UNCHANGED << order, occ, ntok, lastKey, lastIndex, ext, growths, freq,
                  roomy, npc, nout >>

Next ==
  \/ \E token \in NextTokens : Token(token)
  \/ NaiveReport
  \/ BetterReport

Spec == Init /\ [][Next]_vars

(***************************************************************************)
(* What the tables hold.                                                   *)
(***************************************************************************)
\* the slots of table t that are taken and hold key k
Held(t, k) == { i \in 1..Len(t.cells) : t.cells[i].taken /\ t.cells[i].key = k }

\* the count table t stores for key k, 0 when no taken slot holds k
CountOf(t, k) ==
  IF Held(t, k) = {} THEN 0 ELSE t.cells[CHOOSE i \in Held(t, k) : TRUE].value

TakenSlots(t) == { i \in 1..Len(t.cells) : t.cells[i].taken }

\* the (key, count) pairs of the taken slots of t
PairSet(t) ==
  { << t.cells[i].key, t.cells[i].value >> : i \in TakenSlots(t) }

\* a sequence of (key, count) entries as a multiset
PairBag(entries) ==
  [p \in { << entries[i].key, entries[i].value >> : i \in 1..Len(entries) }
     |-> Cardinality({ i \in 1..Len(entries) :
                         << entries[i].key, entries[i].value >> = p })]

TakenCells(t) == SelectSeq(t.cells, LAMBDA cell : cell.taken)

\* hash(k) mod the capacity of t: the slot where the probe for k starts
Home(t, k) == Rem(KeyHash[k], Len(t.cells))

(***************************************************************************)
(* C1: after any input, the multiset of (key, count) pairs in the taken    *)
(* slots of the hash table equals the multiset of (key, value) entries of  *)
(* the baseline table.                                                     *)
(***************************************************************************)
C1_SameMultiset == PairBag(TakenCells(slots)) = PairBag(freq.freq_table)

C1_Witness ==
  /\ growths >= 1
  /\ \E k \in KeySet : occ[k] >= 2
  /\ Len(freq.freq_table) > INIT_CAP
  /\ C1_SameMultiset

(***************************************************************************)
(* C2: after any sequence of inserts into a fresh table, a key is held by  *)
(* a taken slot iff it occurs in the sequence, and the count stored for it *)
(* is the number of times it occurs.                                       *)
(***************************************************************************)
\* the input "a b a c b a" and the table better_analysis builds from it
Scenario == << << 97 >>, << 98 >>, << 97 >>, << 99 >>, << 98 >>, << 97 >> >>
ScenarioTable == InsertAll(HashTableNew, Scenario, 1)

C2_CountsAreOccurrences ==
  /\ { slots.cells[i].key : i \in TakenSlots(slots) } = Seen
  /\ \A i \in TakenSlots(slots) :
       slots.cells[i].value = occ[slots.cells[i].key]
  /\ PairSet(ScenarioTable) =
       { << << 97 >>, 3 >>, << << 98 >>, 2 >>, << << 99 >>, 1 >> }
  /\ Cardinality(TakenSlots(ScenarioTable)) = 3

C2_Witness ==
  /\ \E j, k \in KeySet : occ[j] = 2 /\ occ[k] = 1 /\ CountOf(slots, j) = 2
  /\ growths >= 1
  /\ C2_CountsAreOccurrences

(***************************************************************************)
(* C3: a growth ends with every key of the old table in exactly one taken  *)
(* slot of the new table with the same count, with no other key taken, and *)
(* with taken_count as it was.                                             *)
(***************************************************************************)
GrowthPreserves(old, new) ==
  /\ \A i \in TakenSlots(old) :
       /\ Cardinality(Held(new, old.cells[i].key)) = 1
       /\ CountOf(new, old.cells[i].key) = old.cells[i].value
  /\ \A j \in TakenSlots(new) : Held(old, new.cells[j].key) # {}
  /\ new.taken_count = old.taken_count
  /\ Cardinality(TakenSlots(new)) = Cardinality(TakenSlots(old))

C3_GrowthPreserves ==
  [][(ntok' = ntok + 1 /\ ext' # << >>) => GrowthPreserves(slots, ext'[1])]_vars

C3_Witness ==
  /\ ext # << >>
  /\ \E i \in TakenSlots(ext[1]) : ext[1].cells[i].value >= 2
  /\ Len(ext[1].cells) = 2 * INIT_CAP
  /\ ext[1].taken_count = INIT_CAP

(***************************************************************************)
(* C4: a table that starts at capacity 10 and grows ends with the same     *)
(* count for every key, and as many taken slots, as a table created with   *)
(* room for every key, which never grows.                                  *)
(***************************************************************************)
C4_SameAsRoomy ==
  /\ PairSet(slots) = PairSet(roomy)
  /\ Cardinality(TakenSlots(slots)) = Cardinality(TakenSlots(roomy))
  /\ slots.taken_count = roomy.taken_count

C4_Witness ==
  /\ growths >= 1
  /\ Len(roomy.cells) = NumKeys + 1
  /\ Len(slots.cells) > INIT_CAP
  /\ \E k \in KeySet : CountOf(roomy, k) >= 2
  /\ C4_SameAsRoomy

(***************************************************************************)
(* C5: inserting key K and then at once K again.                           *)
(***************************************************************************)
\* this step inserts the key the step before it inserted
SameKeyAgain == ntok' = ntok + 1 /\ lastKey' = lastKey

\* C5 as claimed: the second insert always finds K in the slot where the
\* first insert put it, increments that slot, and makes no second slot for K
C5_SameSlotAlways ==
  [][SameKeyAgain =>
       /\ lastIndex' = lastIndex
       /\ slots'.cells[lastIndex + 1].key = lastKey
       /\ slots'.cells[lastIndex + 1].value = slots.cells[lastIndex + 1].value + 1
       /\ Cardinality(Held(slots', lastKey)) = 1]_vars

\* C5 as amended: the second insert increments the count of K and makes no
\* second slot for K; it finds K in the slot where the first insert put it
\* unless it grows the table first
C5_SameSlotUnlessGrowth ==
  [][SameKeyAgain =>
       /\ Cardinality(Held(slots', lastKey)) = 1
       /\ CountOf(slots', lastKey) = CountOf(slots, lastKey) + 1
       /\ slots'.taken_count = slots.taken_count
       /\ slots'.cells[lastIndex' + 1].key = lastKey
       /\ (ext' = << >> => lastIndex' = lastIndex)
       /\ (ext' # << >> <=> NeedsGrowth(slots))]_vars

\* ten distinct keys, then the tenth again: the second insert of it grows
\* the table
C5_Witness ==
  /\ ntok = INIT_CAP + 1
  /\ NumSeen = INIT_CAP
  /\ lastKey = Orders[order][INIT_CAP]
  /\ occ[lastKey] = 2
  /\ ext # << >>
  /\ CountOf(slots, lastKey) = 2

(***************************************************************************)
(* C6: with fewer than 10 distinct tokens, the empty input included, both  *)
(* reports complete without an index out of bounds, and for the empty      *)
(* input the token count reported is 0.                                    *)
(***************************************************************************)
C6_ReportsComplete ==
  NumSeen < TOP_N =>
    /\ npc # "panicked"
    /\ bpc # "panicked"
    /\ (ntok = 0 /\ npc # "loop" => nout.tokens = 0)
    /\ (ntok = 0 /\ bpc # "loop" => bout.tokens = 0)

(***************************************************************************)
(* C7: 11 pairwise distinct keys inserted into a fresh table cause exactly *)
(* one growth; then the capacity is 20 and the 11 keys are held with count *)
(* 1 each.                                                                 *)
(***************************************************************************)
ElevenDistinct == ntok = INIT_CAP + 1 /\ NumSeen = INIT_CAP + 1

C7_ElevenKeysOneGrowth ==
  ElevenDistinct =>
    /\ growths = 1
    /\ Len(slots.cells) = 2 * INIT_CAP
    /\ slots.taken_count = INIT_CAP + 1
    /\ \A k \in Seen : Cardinality(Held(slots, k)) = 1 /\ CountOf(slots, k) = 1
  /\ Cardinality(TakenSlots(slots)) = INIT_CAP + 1

C7_Witness == ElevenDistinct /\ growths = 1 /\ ext # << >> /\ bpc = "loop"

(***************************************************************************)
(* C8: the lines of the report of better_analysis come in non-increasing   *)
(* order of count, lines of equal count in the order their slots had       *)
(* before the sort, and every line has a count at least that of every      *)
(* taken entry that is not reported.                                       *)
(***************************************************************************)
\* the slots of cells that a reported line may come from
SlotsOfLine(cells, line) ==
  { i \in 1..Len(cells) : cells[i].key = line.key /\ cells[i].value = line.value }

ReportInOrder(cells, lines) ==
  /\ \A i, j \in 1..Len(lines) : i < j => lines[i].value >= lines[j].value
  /\ \A i \in 1..Len(lines) : SlotsOfLine(cells, lines[i]) # {}
  /\ \A i, j \in 1..Len(lines) :
       (i < j /\ lines[i].value = lines[j].value /\ lines[i].value > 0) =>
         \A a \in SlotsOfLine(cells, lines[i]) :
           \A b \in SlotsOfLine(cells, lines[j]) : a < b
  /\ \A c \in 1..Len(cells) :
       (cells[c].taken /\ \A i \in 1..Len(lines) : lines[i].key # cells[c].key) =>
         \A i \in 1..Len(lines) : lines[i].value >= cells[c].value

C8_ReportSorted ==
  [][(bpc = "loop" /\ bpc' # "loop") => ReportInOrder(slots.cells, bout'.lines)]_vars

C8_Witness ==
  /\ bpc = "done"
  /\ bout.tokens > TOP_N
  /\ Len(bout.lines) = TOP_N
  /\ \E i, j \in 1..TOP_N : bout.lines[i].value > bout.lines[j].value
  /\ \E i, j \in 1..TOP_N :
       i < j /\ bout.lines[i].value = bout.lines[j].value /\ bout.lines[i].value > 0

(***************************************************************************)
(* C9: after any sequence of inserts, growths included, no two taken slots *)
(* hold the same key, also when keys share a hash or a first probe index.  *)
(***************************************************************************)
C9_KeysUnique ==
  \A i, j \in TakenSlots(slots) :
    slots.cells[i].key = slots.cells[j].key => i = j

\* two keys of one hash are held, the table has grown, and a key was found
\* taken again after the growth
C9_Witness ==
  /\ \E j, k \in Seen : j # k /\ KeyHash[j] = KeyHash[k]
  /\ growths >= 1
  /\ ext = << >>
  /\ occ[lastKey] >= 2
  /\ C9_KeysUnique

(***************************************************************************)
(* C10: after any sequence of inserts, growths included, every slot on the *)
(* wrapping probe path from hash(K) mod capacity up to the slot that holds *)
(* K is taken.                                                             *)
(***************************************************************************)
\* how many slots the probe for the key in slot i (1-based) passes before it
Displacement(t, i) ==
  ((i - 1) + Len(t.cells) - Home(t, t.cells[i].key)) % Len(t.cells)

ChainUnbroken(t) ==
  \A i \in TakenSlots(t) :
    \A d \in 0..(Displacement(t, i) - 1) :
      t.cells[((Home(t, t.cells[i].key) + d) % Len(t.cells)) + 1].taken

C10_ChainUnbroken == bpc = "loop" => ChainUnbroken(slots)

C10_Witness ==
  /\ bpc = "loop"
  /\ growths >= 1
  /\ \E i \in TakenSlots(slots) : Displacement(slots, i) >= 2
  /\ ChainUnbroken(slots)

(***************************************************************************)
(* C11: occupied_count against the capacity after an insert.               *)
(***************************************************************************)
\* this step is one call of insert
Inserted == ntok' = ntok + 1

\* C11 as claimed: immediately after every insert occupied_count is
\* strictly less than the capacity
C11_BelowCapacityAfterInsert ==
  [][Inserted => slots'.taken_count < Len(slots'.cells)]_vars

\* C11 as amended: an insert that starts with occupied_count equal to the
\* capacity grows the table first; immediately after every insert
\* occupied_count is at most the capacity, and strictly less when the insert
\* grew the table
C11_AtMostCapacityAfterInsert ==
  [][Inserted =>
       /\ (slots.taken_count >= Len(slots.cells) => ext' # << >>)
       /\ slots'.taken_count <= Len(slots'.cells)
       /\ (ext' # << >> => slots'.taken_count < Len(slots'.cells))]_vars

\* the table was filled to its capacity of 20, and the insert after that
\* has grown it
C11_Witness ==
  /\ ext # << >>
  /\ growths = 2
  /\ ext[1].taken_count = 2 * INIT_CAP
  /\ Len(slots.cells) = 4 * INIT_CAP
  /\ slots.taken_count < Len(slots.cells)

(***************************************************************************)
(* C12: in every state of the hash table, the table extend has just built  *)
(* included, taken_count is the number of slots whose taken flag is set    *)
(* and is at most the capacity.                                            *)
(***************************************************************************)
CountIsTaken(t) ==
  /\ t.taken_count = Cardinality(TakenSlots(t))
  /\ t.taken_count <= Len(t.cells)

C12_CountIsTaken ==
  /\ CountIsTaken(slots)
  /\ \A i \in 1..Len(ext) : CountIsTaken(ext[i])

\* the table has grown, has been filled to its capacity again, and a key
\* was found taken again
C12_Witness ==
  /\ growths >= 1
  /\ slots.taken_count = Len(slots.cells)
  /\ \E i \in TakenSlots(slots) : slots.cells[i].value >= 2
  /\ C12_CountIsTaken

(***************************************************************************)
(* C13: when the probing loop of insert starts, taken_count is strictly    *)
(* less than the capacity; the loop visits at most as many slots as the    *)
(* capacity and ends at a slot that holds the inserted key or is free.     *)
(***************************************************************************)
\* the table the probing loop of this insert runs on: the one extend built
\* when this insert called it, the table as it was otherwise
ProbedTable == IF ext' # << >> THEN ext'[1] ELSE slots

C13_ProbeTerminates ==
  [][Inserted =>
       LET t == ProbedTable
           visits == ProbeVisits(t.cells, Home(t, lastKey'), lastKey')
       IN  /\ t.taken_count < Len(t.cells)
           /\ visits <= Len(t.cells)
           /\ visits <= t.taken_count + 1
           /\ lastIndex' = (Home(t, lastKey') + visits - 1) % Len(t.cells)
           /\ \/ ~t.cells[lastIndex' + 1].taken
              \/ t.cells[lastIndex' + 1].key = lastKey'
           /\ \A d \in 0..(visits - 2) :
                LET cell == t.cells[((Home(t, lastKey') + d) % Len(t.cells)) + 1]
                IN  cell.taken /\ cell.key # lastKey']_vars

\* the latest insert filled the last free slot of the table, after its
\* probe had passed at least two taken slots
C13_Witness ==
  /\ bpc = "loop"
  /\ ntok > 0
  /\ ext = << >>
  /\ occ[lastKey] = 1
  /\ slots.taken_count = Len(slots.cells)
  /\ Displacement(slots, lastIndex + 1) >= 2

(***************************************************************************)
(* C14: an insert calls extend exactly when taken_count >= capacity holds  *)
(* at its start, whether or not the key is held already; it calls extend   *)
(* at most once, and nothing but an insert changes the capacity.           *)
(***************************************************************************)
C14_GrowthExactlyWhenFull ==
  [][/\ Inserted =>
          /\ (ext' # << >> <=> slots.taken_count >= Len(slots.cells))
          /\ Len(ext') <= 1
          /\ growths' = growths + Len(ext')
          /\ Len(slots'.cells) =
               IF slots.taken_count >= Len(slots.cells)
               THEN 2 * Len(slots.cells)
               ELSE Len(slots.cells)
          /\ (ext' # << >> => Len(ext'[1].cells) = 2 * Len(slots.cells))
     /\ ~Inserted =>
          /\ growths' = growths
          /\ Len(slots'.cells) = Len(slots.cells)]_vars

\* the latest insert grew the table although its key was held already,
\* and an insert of a new key before it did not
C14_Witness ==
  /\ ext # << >>
  /\ occ[lastKey] >= 2
  /\ ext[1].taken_count = slots.taken_count
  /\ growths = 1
  /\ bpc = "loop"

(***************************************************************************)
(* C15: an insert of key K leaves the count of every other key as it was   *)
(* and removes no key; when K was held it adds 1 to the count of K and     *)
(* leaves taken_count as it was, otherwise it adds K with count 1 and adds *)
(* 1 to taken_count.                                                       *)
(***************************************************************************)
\* the keys the taken slots of t hold
KeysOf(t) == { t.cells[i].key : i \in TakenSlots(t) }

C15_InsertFrame ==
  [][Inserted =>
       /\ \A k \in KeySet \ { lastKey' } : CountOf(slots', k) = CountOf(slots, k)
       /\ KeysOf(slots') = KeysOf(slots) \cup { lastKey' }
       /\ Cardinality(Held(slots', lastKey')) = 1
       /\ IF lastKey' \in KeysOf(slots)
          THEN /\ CountOf(slots', lastKey') = CountOf(slots, lastKey') + 1
               /\ slots'.taken_count = slots.taken_count
               /\ Cardinality(TakenSlots(slots')) = Cardinality(TakenSlots(slots))
          ELSE /\ CountOf(slots', lastKey') = 1
               /\ slots'.taken_count = slots.taken_count + 1
               /\ Cardinality(TakenSlots(slots')) =
                    Cardinality(TakenSlots(slots)) + 1]_vars

\* the latest insert found its key, past a slot taken by another key, in a
\* table that has grown and holds more than ten other keys
C15_Witness ==
  /\ bpc = "loop"
  /\ ntok > 0
  /\ occ[lastKey] = 2
  /\ NumSeen > INIT_CAP + 1
  /\ ext = << >>
  /\ Displacement(slots, lastIndex + 1) >= 1
  /\ CountOf(slots, lastKey) = 2

(***************************************************************************)
(* C16: the capacity starts at 10 and never decreases; each growth sets it *)
(* to exactly twice what it was, so it is always 10 * 2^k after k growths; *)
(* taken_count and the count of every held key never decrease.             *)
(***************************************************************************)
C16_OnlyGrows ==
  /\ [](Len(slots.cells) = INIT_CAP * (2 ^ growths))
  /\ [][/\ Len(slots'.cells) >= Len(slots.cells)
        /\ Len(slots'.cells) # Len(slots.cells) =>
             /\ Len(slots'.cells) = 2 * Len(slots.cells)
             /\ growths' = growths + 1
        /\ growths' # growths => Len(slots'.cells) = 2 * Len(slots.cells)
        /\ slots'.taken_count >= slots.taken_count
        /\ \A k \in KeysOf(slots) : CountOf(slots', k) >= CountOf(slots, k)]_vars

\* the table has grown twice, holds more keys than its capacity before the
\* second growth, and one of them more than once
C16_Witness ==
  /\ growths = 2
  /\ Len(slots.cells) = 4 * INIT_CAP
  /\ slots.taken_count > 2 * INIT_CAP
  /\ \E k \in KeysOf(slots) : CountOf(slots, k) >= 2

(***************************************************************************)
(* C17: when fewer than 10 slots are taken, every line of the report of    *)
(* better_analysis comes from a taken slot; none shows a free slot, an     *)
(* empty key with count 0.                                                 *)
(***************************************************************************)
C17_ReportOnlyTaken ==
  (bpc = "done" /\ bout.tokens < TOP_N) =>
    /\ \A i \in 1..Len(bout.lines) :
         /\ << bout.lines[i].key, bout.lines[i].value >> \in PairSet(slots)
         /\ bout.lines[i].key # << >>
         /\ bout.lines[i].value > 0
    /\ Len(bout.lines) <= bout.tokens

(***************************************************************************)
(* C18: hash(s) is the djb2 value of s: from 5381, acc := (acc * 33 + c)   *)
(* mod 2^64 for each byte c of s in order.  The step of the source,        *)
(* (acc << 5) + acc + c with wrapping additions, gives that value for      *)
(* every accumulator, also when acc * 33 + c is 2^64 or more.              *)
(***************************************************************************)
\* acc * 33 + c as limbs, with a fifth limb for what lies above 2^64
TimesThirtyThreePlus(acc, c) ==
  LET t1 == acc[1] * 33 + c
      t2 == acc[2] * 33 + (t1 \div LimbBase)
      t3 == acc[3] * 33 + (t2 \div LimbBase)
      t4 == acc[4] * 33 + (t3 \div LimbBase)
  IN  << t1 % LimbBase, t2 % LimbBase, t3 % LimbBase, t4 % LimbBase,
         t4 \div LimbBase >>

\* (acc * 33 + c) mod 2^64
Djb2Step(acc, c) == SubSeq(TimesThirtyThreePlus(acc, c), 1, 4)

\* acc * 33 + c >= 2^64
Overflows(acc, c) == TimesThirtyThreePlus(acc, c)[5] > 0

RECURSIVE Djb2From(_, _, _)
Djb2From(acc, s, i) ==
  IF i > Len(s) THEN acc
  ELSE LET next == Djb2Step(acc, s[i])
       IN  After(next, Djb2From(next, s, i + 1))

Djb2(s) == Djb2From(ToWord(HASH_SEED), s, 1)

\* accumulators and bytes the step is compared on: every limb at its ends
\* and around the bits that << 5 shifts out
LimbSamples == { 0, 1, 2047, 2048, 32767, 32768, 65535 }
ByteSamples == { 0, 1, 97, 127, 128, 255 }
AccSamples ==
  { << a, b, c, d >> : a \in LimbSamples, b \in LimbSamples,
                       c \in LimbSamples, d \in LimbSamples }

StepIsDjb2 ==
  \A acc \in AccSamples : \A c \in ByteSamples : HashStep(acc, c) = Djb2Step(acc, c)

\* some step of the hash of s goes past 2^64
HashWraps(s) ==
  \E i \in 1..Len(s) :
    Overflows(Djb2From(ToWord(HASH_SEED), SubSeq(s, 1, i - 1), 1), s[i])

C18_HashIsDjb2 ==
  /\ StepIsDjb2
  /\ ntok > 0 => KeyHash[lastKey] = Djb2(lastKey)

\* the key of the latest insert has a hash that wraps, and another key
\* held has one that does not
C18_Witness ==
  /\ ntok > 0
  /\ HashWraps(lastKey)
  /\ \E k \in Seen : ~HashWraps(k)
  /\ KeyHash[lastKey] = Djb2(lastKey)
  /\ \E acc \in AccSamples : \E c \in ByteSamples :
       Overflows(acc, c) /\ HashStep(acc, c) = Djb2Step(acc, c)

(***************************************************************************)
(* C19: after n inserts into a fresh table, before the report sorts it,    *)
(* the counts of the taken slots add up to n, every taken slot has a count *)
(* of at least 1 and every free slot has count 0.                          *)
(***************************************************************************)
\* the sum of the counts of the taken cells among cells[i], cells[i + 1], ...
RECURSIVE SumTakenFrom(_, _, _)
SumTakenFrom(cells, i, sum) ==
  IF i > Len(cells) THEN sum
  ELSE LET next == IF cells[i].taken THEN sum + cells[i].value ELSE sum
       IN  After(next, SumTakenFrom(cells, i + 1, next))

C19_CountsAddUp ==
  bpc = "loop" =>
    /\ SumTakenFrom(slots.cells, 1, 0) = ntok
    /\ \A i \in 1..Len(slots.cells) :
         IF slots.cells[i].taken
         THEN slots.cells[i].value >= 1
         ELSE slots.cells[i].value = 0

\* more than 20 tokens, one of them a repeat, in a table that has grown
\* twice and has free slots
C19_Witness ==
  /\ bpc = "loop"
  /\ ntok > 2 * INIT_CAP
  /\ ntok > slots.taken_count
  /\ growths = 2
  /\ slots.taken_count < Len(slots.cells)
  /\ SumTakenFrom(slots.cells, 1, 0) = ntok

====
